---- MODULE Spec2Model ----
(***************************************************************************)
(* State-machine model of src/app.js (with the settings of src/config.js): *)
(* the in-memory user directory, the passport verify callback with its     *)
(* deferred process.nextTick step, the session serializer, and the routes  *)
(* GET /, GET /api, GET /login, GET|POST /auth/openid/return, GET /logout. *)
(*                                                                         *)
(* JavaScript runs every callback to completion, so one action is one      *)
(* callback: a synchronous handler is one action; a handler that hands     *)
(* over to an asynchronous delegate (passport.authenticate, nextTick,      *)
(* session.destroy) is split at exactly those points.                      *)
(*                                                                         *)
(* The collaborating libraries are called, not defined, by app.js.  They   *)
(* are modelled by the contract of the calls app.js makes:                 *)
(*   passport   done(err) -> next(err); done(null, falsy) -> failure       *)
(*              redirect; done(null, user) -> req.logIn, serializeUser     *)
(*              into the session, next(); passport.session() re-hydrates   *)
(*              req.user through deserializeUser on every request;         *)
(*   session    req.session.destroy removes the stored session and then    *)
(*              calls back;                                                *)
(*   OIDC       the authorize step records a pending authentication        *)
(*              context, the return step needs and consumes one.           *)
(***************************************************************************)
EXTENDS Naturals, Sequences, FiniteSets

VARIABLES
  loggedInUsers,  \* app.js:40, the user directory, a sequence of profiles
  sessUser,       \* per browser session: session.passport.user (an oid) or Undefined
  ctx,            \* per browser session: number of pending authentication contexts
  reqs,           \* the requests in flight, one per request slot
  last            \* the request answered by the latest step, with what it observed and
                  \* answered; NoAnswer when the latest step answered none

vars == <<loggedInUsers, sessUser, ctx, reqs, last>>

----------------------------------------------------------------------------
\* Bounds of the model.

\* Authentication contexts pending at a time, over all browsers (below
\* nonceMaxAmount of config.js, so the library never has to drop one).
MaxPending == 1

Sessions == {"s1", "s2"}
Reqs == {"r1", "r2"}
Oids == {"a", "b"}

----------------------------------------------------------------------------
\* Values.

\* JavaScript undefined / null, as a session value and as an oid claim.
Undefined == "undefined"
\* The empty string as an oid claim (falsy, like undefined).
EmptyOid == ""
Null == "null"

\* A profile as the identity provider supplies it: the oid claim and the
\* remaining claims (here: one display name).
Profiles ==
  {[oid |-> "a", name |-> "n1"], [oid |-> "a", name |-> "n2"],
   [oid |-> "b", name |-> "n1"],
   [oid |-> Undefined, name |-> "n1"], [oid |-> EmptyOid, name |-> "n1"]}

\* The value `undefined` where a user record is expected.
Absent == [oid |-> Undefined, name |-> Undefined]

\* config.js: the url to go to to destroy the session with the provider
destroySessionUrl ==
  "https://login.microsoftonline.com/common/oauth2/logout?post_logout_redirect_uri=http://localhost:3000"
\* app.js: the failureRedirect option handed to passport.authenticate
failureRedirect == "/"
\* The provider's sign-in page, where the authorize step sends the browser.
ProviderUrl == "https://login.microsoftonline.com/authorize"

NoResponse == [status |-> 0, location |-> "", body |-> ""]
\* res.redirect(url)
redirect(url) == [status |-> 302, location |-> url, body |-> ""]
\* res.send(obj) / res.render(view)
send(body) == [status |-> 200, location |-> "", body |-> body]
\* next(err) with no error middleware installed: the framework's error response
errorResponse == [status |-> 500, location |-> "", body |-> "error"]

ApiPayload == "Respone from API endpoint"

Methods == {"GET", "POST"}

\* A request in flight: its route, its session, where it is suspended, the
\* profile its verify callback was called with, whether req.isAuthenticated()
\* held when a logout request arrived, and (history) the oid of a verification
\* whose deferred step was pending together with this one's (Undefined when
\* there was none).
FreeSlot ==
  [route |-> "none", sess |-> "none", pc |-> "free", profile |-> Absent,
   isAuth |-> FALSE, peer |-> Undefined]

\* A request of the given route on the given session, handed to its delegate.
NewReq(route, s, pc) == [FreeSlot EXCEPT !.route = route, !.sess = s, !.pc = pc]

\* An answered request: what it was, what it saw and what it answered.
\* NoAnswer: the step answered no request.
NoAnswer ==
  [route |-> "none", sess |-> "none", outcome |-> "none", profile |-> Absent,
   peer |-> Undefined, done |-> "none", ndone |-> 0, user |-> Absent,
   resp |-> NoResponse, nresp |-> 0, err |-> FALSE, isAuth |-> FALSE]

Answer(route, s) == [NoAnswer EXCEPT !.route = route, !.sess = s]

\* The answer of the request in slot r.
AnswerOf(r) ==
  [NoAnswer EXCEPT !.route = reqs[r].route, !.sess = reqs[r].sess,
                   !.profile = reqs[r].profile, !.isAuth = reqs[r].isAuth,
                   !.peer = reqs[r].peer]

----------------------------------------------------------------------------
\* The user directory and the session serializer.

Range(seq) == {seq[i] : i \in DOMAIN seq}

\* Array.prototype.find: the first element whose oid is strictly equal.
FirstMatch(users, oid) ==
  LET hits == {i \in DOMAIN users : users[i].oid = oid}
  IN  IF hits = {} THEN Absent
      ELSE users[CHOOSE i \in hits : \A j \in hits : i <= j]

\* Variants of the definitions below, each with one plausible fault; the
\* properties are checked to fail when a definition is replaced by its variant.
findUser_neverFinds(users, oid) == [err |-> Null, user |-> Absent]

findUser_first(users, oid) ==
  [err |-> Null, user |-> IF users = <<>> THEN Absent ELSE users[1]]

\* findUser(oid, callback): callback(null, user)
findUser(users, oid) == [err |-> Null, user |-> FirstMatch(users, oid)]

serializeUser_name(user) == user.name

\* passport.serializeUser: done(null, user.oid)
serializeUser(user) == user.oid

\* passport.deserializeUser: findUser(oid, (err, user) => done(err, user))
deserializeUser(users, oid) == findUser(users, oid)

pushUser_overwrite(users, profile) == <<profile>>

pushUser_unshift(users, profile) == <<profile>> \o users

pushUser_skip(users, profile) == users

\* loggedInUsers.push(profile)
pushUser(users, profile) == Append(users, profile)

hasOid_always(profile) == TRUE

\* the negation of `!profile.oid`
hasOid(profile) == profile.oid \notin {Undefined, EmptyOid}

reqUser_none(s) == Absent

\* passport.session(): req.user of a request on session s
reqUser(s) ==
  IF sessUser[s] = Undefined THEN Absent
  ELSE deserializeUser(loggedInUsers, sessUser[s]).user

\* passport.session(): a stored identity that no longer deserializes is
\* removed from the session.
sessionLoaded(s) ==
  IF sessUser[s] # Undefined /\ reqUser(s) = Absent
  THEN [sessUser EXCEPT ![s] = Undefined]
  ELSE sessUser

\* req.isAuthenticated()
isAuthenticated(user) == user # Absent

ensureAuthenticated_open(authed) == "next"

ensureAuthenticated_inverted(authed) == IF authed THEN "redirect" ELSE "next"

\* ensureAuthenticated: next() or res.redirect('/login')
ensureAuthenticated(authed) == IF authed THEN "next" ELSE "redirect"

\* What passport does with the verify callback's done(err, user).
verified(err, user) ==
  IF err # Null THEN "error"
  ELSE IF user = Absent THEN "fail"
  ELSE "success"

sessionDestroy_keeps(store, s) == store

sessionDestroy_all(store, s) == [t \in DOMAIN store |-> Undefined]

\* req.session.destroy: the stored session is removed
sessionDestroy(store, s) == [store EXCEPT ![s] = Undefined]

logoutRedirect_onlyOnSuccess(err) ==
  IF err THEN errorResponse ELSE redirect(destroySessionUrl)

\* the destroy callback of GET /logout: res.redirect(config.destroySessionUrl)
logoutRedirect(err) == redirect(destroySessionUrl)

\* The external OIDC library's pending authentication contexts.
matchContext(n) == n > 0

consumeContext_keeps(n) == n

consumeContext(n) == n - 1

addContext(n) == n + 1


----------------------------------------------------------------------------
Init ==
  /\ loggedInUsers = <<>>
  /\ sessUser = [s \in Sessions |-> Undefined]
  /\ ctx = [s \in Sessions |-> 0]
  /\ reqs = [r \in Reqs |-> FreeSlot]
  /\ last = NoAnswer

\* The number of pending authentication contexts of the sessions in S.
RECURSIVE Pending(_)
Pending(S) ==
  IF S = {} THEN 0
  ELSE LET s == CHOOSE x \in S : TRUE IN ctx[s] + Pending(S \ {s})

\* GET /
GetHome(s) ==
  /\ sessUser' = sessionLoaded(s)
  /\ last' = [Answer("GET /", s) EXCEPT
                !.user = reqUser(s), !.isAuth = isAuthenticated(reqUser(s)),
                !.resp = send("index"), !.nresp = 1]
  /\ UNCHANGED <<loggedInUsers, ctx, reqs>>

\* GET /api, behind ensureAuthenticated
GetApi(s) ==
  /\ sessUser' = sessionLoaded(s)
  /\ LET authed == isAuthenticated(reqUser(s))
     IN last' = [Answer("GET /api", s) EXCEPT
                   !.isAuth = authed,
                   !.resp = IF ensureAuthenticated(authed) = "next"
                            THEN send(ApiPayload)
                            ELSE redirect("/login"),
                   !.nresp = 1]
  /\ UNCHANGED <<loggedInUsers, ctx, reqs>>

\* GET /login: the request is handed to passport.authenticate
GetLogin(r, s) ==
  /\ reqs[r].pc = "free"
  /\ sessUser' = sessionLoaded(s)
  /\ reqs' = [reqs EXCEPT ![r] = NewReq("GET /login", s, "delegate")]
  /\ last' = NoAnswer
  /\ UNCHANGED <<loggedInUsers, ctx>>

\* Variant of LoginAuthorize: the handler calls next() instead of delegating,
\* and the route's second handler answers.
LoginAuthorize_next(r) ==
  /\ reqs[r].pc = "delegate" /\ reqs[r].route = "GET /login"
  /\ last' = [AnswerOf(r) EXCEPT !.resp = redirect("/"), !.nresp = 1]
  /\ reqs' = [reqs EXCEPT ![r] = FreeSlot]
  /\ UNCHANGED <<loggedInUsers, sessUser, ctx>>

\* The authorize step of the delegate: a pending context is recorded and the
\* browser is sent to the identity provider.
LoginAuthorize(r) ==
  /\ reqs[r].pc = "delegate" /\ reqs[r].route = "GET /login"
  /\ Pending(Sessions) < MaxPending
  /\ ctx' = [ctx EXCEPT ![reqs[r].sess] = addContext(@)]
  /\ last' = [AnswerOf(r) EXCEPT !.outcome = "authorize",
                                 !.resp = redirect(ProviderUrl), !.nresp = 1]
  /\ reqs' = [reqs EXCEPT ![r] = FreeSlot]
  /\ UNCHANGED <<loggedInUsers, sessUser>>

\* The delegate fails on GET /login: failureRedirect
LoginFail(r) ==
  /\ reqs[r].pc = "delegate" /\ reqs[r].route = "GET /login"
  /\ last' = [AnswerOf(r) EXCEPT !.outcome = "rejected",
                                 !.resp = redirect(failureRedirect), !.nresp = 1]
  /\ reqs' = [reqs EXCEPT ![r] = FreeSlot]
  /\ UNCHANGED <<loggedInUsers, sessUser, ctx>>

\* GET or POST /auth/openid/return (the two handlers are the same code):
\* the request is handed to passport.authenticate
Return(r, s, method) ==
  /\ reqs[r].pc = "free"
  /\ method \in Methods
  /\ sessUser' = sessionLoaded(s)
  /\ reqs' = [reqs EXCEPT ![r] = NewReq("/auth/openid/return", s, "delegate")]
  /\ last' = NoAnswer
  /\ UNCHANGED <<loggedInUsers, ctx>>

\* The return finds no pending context: authentication fails, failureRedirect
ReturnNoContext(r) ==
  /\ reqs[r].pc = "delegate" /\ reqs[r].route = "/auth/openid/return"
  /\ ~matchContext(ctx[reqs[r].sess])
  /\ last' = [AnswerOf(r) EXCEPT !.outcome = "nocontext",
                                 !.resp = redirect(failureRedirect), !.nresp = 1]
  /\ reqs' = [reqs EXCEPT ![r] = FreeSlot]
  /\ UNCHANGED <<loggedInUsers, sessUser, ctx>>

\* The return matches a pending context, which is consumed, and the library
\* rejects the response (token, issuer, nonce ...): failureRedirect
ReturnRejected(r) ==
  /\ reqs[r].pc = "delegate" /\ reqs[r].route = "/auth/openid/return"
  /\ matchContext(ctx[reqs[r].sess])
  /\ ctx' = [ctx EXCEPT ![reqs[r].sess] = consumeContext(@)]
  /\ last' = [AnswerOf(r) EXCEPT !.outcome = "rejected",
                                 !.resp = redirect(failureRedirect), !.nresp = 1]
  /\ reqs' = [reqs EXCEPT ![r] = FreeSlot]
  /\ UNCHANGED <<loggedInUsers, sessUser>>

\* The verifications whose deferred step is pending, other than r's.
PendingBeside(r) == {q \in Reqs \ {r} : reqs[q].pc = "tick"}

\* The return matches a pending context, which is consumed, the library accepts
\* the response and calls the verify callback with the profile:
\* the synchronous part of the callback.
ReturnVerify(r, profile) ==
  /\ reqs[r].pc = "delegate" /\ reqs[r].route = "/auth/openid/return"
  /\ matchContext(ctx[reqs[r].sess])
  /\ ctx' = [ctx EXCEPT ![reqs[r].sess] = consumeContext(@)]
  /\ IF ~hasOid(profile)
     THEN \* return done(new Error("No oid found"), null)
          /\ last' = [AnswerOf(r) EXCEPT
                        !.outcome = "verify", !.profile = profile,
                        !.done = verified("No oid found", Absent),
                        !.ndone = 1, !.user = Absent,
                        !.resp = errorResponse, !.nresp = 1]
          /\ reqs' = [reqs EXCEPT ![r] = FreeSlot]
     ELSE \* process.nextTick(...)
          /\ reqs' = [q \in Reqs |->
               IF q = r
               THEN [reqs[r] EXCEPT
                       !.pc = "tick", !.profile = profile,
                       !.peer = IF PendingBeside(r) = {} THEN Undefined
                                ELSE reqs[CHOOSE p \in PendingBeside(r) : TRUE].profile.oid]
               ELSE IF q \in PendingBeside(r)
               THEN [reqs[q] EXCEPT !.peer = profile.oid]
               ELSE reqs[q]]
          /\ last' = NoAnswer
  /\ UNCHANGED <<loggedInUsers, sessUser>>

\* Variant of NextTick with `return` missing before done(null, profile): the
\* registration path falls through to the second done.
NextTick_noReturn(r) ==
  /\ reqs[r].pc = "tick"
  /\ LET s == reqs[r].sess
         profile == reqs[r].profile
         found == findUser(loggedInUsers, profile.oid)
         user == IF found.user = Absent THEN profile ELSE found.user
     IN /\ loggedInUsers' =
             IF found.user = Absent
             THEN pushUser(loggedInUsers, profile)
             ELSE loggedInUsers
        /\ sessUser' = [sessUser EXCEPT ![s] = serializeUser(user)]
        /\ last' = [AnswerOf(r) EXCEPT
                      !.outcome = "verify", !.done = "success",
                      !.ndone = IF found.user = Absent THEN 2 ELSE 1,
                      !.user = user, !.resp = redirect("/"), !.nresp = 1]
  /\ reqs' = [reqs EXCEPT ![r] = FreeSlot]
  /\ UNCHANGED ctx

\* The deferred step of the verify callback, and what passport does with its
\* result: req.logIn stores serializeUser(user) in the session, then the
\* route's second handler redirects to '/'.
NextTick(r) ==
  /\ reqs[r].pc = "tick"
  /\ LET s == reqs[r].sess
         profile == reqs[r].profile
         found == findUser(loggedInUsers, profile.oid)
         err == found.err
         user == IF err # Null THEN Absent
                 ELSE IF found.user = Absent THEN profile
                 ELSE found.user
         result == verified(err, user)
     IN /\ loggedInUsers' =
             IF err = Null /\ found.user = Absent
             THEN pushUser(loggedInUsers, profile)
             ELSE loggedInUsers
        /\ sessUser' =
             IF result = "success"
             THEN [sessUser EXCEPT ![s] = serializeUser(user)]
             ELSE sessUser
        /\ last' = [AnswerOf(r) EXCEPT
                      !.outcome = "verify", !.done = result, !.ndone = 1,
                      !.user = user,
                      !.resp = CASE result = "success" -> redirect("/")
                                 [] result = "fail" -> redirect(failureRedirect)
                                 [] OTHER -> errorResponse,
                      !.nresp = 1]
  /\ reqs' = [reqs EXCEPT ![r] = FreeSlot]
  /\ UNCHANGED ctx

\* GET /logout: req.session.destroy(callback)
GetLogout(r, s) ==
  /\ reqs[r].pc = "free"
  /\ sessUser' = sessionDestroy(sessionLoaded(s), s)
  /\ reqs' = [reqs EXCEPT ![r] =
       [NewReq("GET /logout", s, "destroying") EXCEPT
          !.isAuth = isAuthenticated(reqUser(s))]]
  /\ last' = NoAnswer
  /\ UNCHANGED <<loggedInUsers, ctx>>

\* The destroy callback: req.logOut(); res.redirect(config.destroySessionUrl)
DestroyCallback(r, err) ==
  /\ reqs[r].pc = "destroying"
  /\ last' = [AnswerOf(r) EXCEPT !.err = err, !.resp = logoutRedirect(err),
                                 !.nresp = 1]
  /\ reqs' = [reqs EXCEPT ![r] = FreeSlot]
  /\ UNCHANGED <<loggedInUsers, sessUser, ctx>>

\* A pending context that is never returned to expires.
ExpireContext(s) ==
  /\ ctx[s] > 0
  /\ ctx' = [ctx EXCEPT ![s] = @ - 1]
  /\ last' = NoAnswer
  /\ UNCHANGED <<loggedInUsers, sessUser, reqs>>

Next ==
  \/ \E s \in Sessions : GetHome(s)
  \/ \E s \in Sessions : GetApi(s)
  \/ \E r \in Reqs, s \in Sessions : GetLogin(r, s)
  \/ \E r \in Reqs : LoginAuthorize(r)
  \/ \E r \in Reqs : LoginFail(r)
  \/ \E r \in Reqs, s \in Sessions, method \in Methods : Return(r, s, method)
  \/ \E r \in Reqs : ReturnNoContext(r)
  \/ \E r \in Reqs : ReturnRejected(r)
  \/ \E r \in Reqs, profile \in Profiles : ReturnVerify(r, profile)
  \/ \E r \in Reqs : NextTick(r)
  \/ \E r \in Reqs, s \in Sessions : GetLogout(r, s)
  \/ \E r \in Reqs, err \in BOOLEAN : DestroyCallback(r, err)
  \/ \E s \in Sessions : ExpireContext(s)

Spec == Init /\ [][Next]_vars

\* The requests that take part in a verification: the login that creates the
\* context, the return that calls the verify callback, and its deferred step.
VerifyNext ==
  \/ \E r \in Reqs, s \in Sessions : GetLogin(r, s)
  \/ \E r \in Reqs : LoginAuthorize(r)
  \/ \E r \in Reqs, s \in Sessions, method \in Methods : Return(r, s, method)
  \/ \E r \in Reqs : ReturnNoContext(r)
  \/ \E r \in Reqs : ReturnRejected(r)
  \/ \E r \in Reqs, profile \in Profiles : ReturnVerify(r, profile)
  \/ \E r \in Reqs : NextTick(r)

\* process.nextTick runs every queued callback: the deferred step of a
\* verification is not postponed forever.
VerifySpec ==
  Init /\ [][VerifyNext]_vars /\ \A r \in Reqs : WF_vars(NextTick(r))

----------------------------------------------------------------------------
\* Notions the properties are stated in.

\* The number of directory entries with the given oid.
OidCount(oid) ==
  Cardinality({i \in DOMAIN loggedInUsers : loggedInUsers[i].oid = oid})

\* The session is Authenticated: it stores an oid that is in the directory.
Authenticated(s) ==
  /\ sessUser[s] # Undefined
  /\ \E i \in DOMAIN loggedInUsers : loggedInUsers[i].oid = sessUser[s]

\* No verification's deferred step is pending.
NoTickPending == \A r \in Reqs : reqs[r].pc # "tick"

\* This step answers a GET /api request on session s.
ApiStepOn(s) ==
  last' # last /\ last'.route = "GET /api" /\ last'.sess = s

\* This step is the deferred step of the verification of slot r.
TickStep(r) == reqs[r].pc = "tick" /\ reqs'[r].pc = "free"

\* This step completes a return-callback flow on session s with success.
ReturnSuccessOn(s) ==
  \E r \in Reqs : TickStep(r) /\ reqs[r].sess = s /\ last'.done = "success"

\* This step is the arrival of GET /logout on session s (the session is destroyed).
LogoutOn(s) ==
  \E r \in Reqs : /\ reqs[r].pc = "free"
                  /\ reqs'[r].route = "GET /logout"
                  /\ reqs'[r].sess = s

\* This step is the delegate's step of the return request in slot r.
ReturnDelegateStep(r) ==
  /\ reqs[r].pc = "delegate" /\ reqs[r].route = "/auth/openid/return"
  /\ reqs'[r].pc # "delegate"

----------------------------------------------------------------------------
\* C1: in every reachable state the directory holds at most one entry per
\* oid, whatever the interleaving of the verification callbacks; an answered
\* successful verification leaves exactly one entry for its oid.
C1_AtMostOneEntryPerOid ==
  /\ \A i, j \in DOMAIN loggedInUsers :
       loggedInUsers[i].oid = loggedInUsers[j].oid => i = j
  /\ (last.done = "success" => OidCount(last.profile.oid) = 1)

\* Two verifications with the same oid and different profiles were pending
\* together; both deferred steps have run, the second found the record the
\* first one registered.
C1_Witness ==
  /\ last.done = "success"
  /\ last.peer = last.profile.oid
  /\ last.user # last.profile
  /\ NoTickPending
  /\ OidCount(last.profile.oid) = 1

\* C2: a verification callback called with a profile without oid (undefined
\* or empty) reports an error through done, with no user, schedules no
\* deferred lookup, and leaves the directory as it was.
C2_MissingOidIsAnError ==
  [][\A r \in Reqs :
       LET p == IF reqs'[r].pc = "tick" THEN reqs'[r].profile ELSE last'.profile
       IN  ( /\ ReturnDelegateStep(r)
             /\ reqs'[r].pc = "tick" \/ last'.outcome = "verify"
             /\ p.oid \in {Undefined, EmptyOid} )
           => /\ reqs'[r].pc = "free"
              /\ last'.done = "error"
              /\ last'.ndone = 1
              /\ last'.user = Absent
              /\ loggedInUsers' = loggedInUsers]_vars

\* A verification without oid was answered with an error while the directory
\* held a record.
C2_Witness ==
  /\ last.outcome = "verify"
  /\ last.profile.oid \in {Undefined, EmptyOid}
  /\ last.done = "error"
  /\ loggedInUsers # <<>>

\* C3: GET /api on a session that is not Authenticated is answered with a
\* redirect to /login; the protected payload is sent only when the guard saw
\* an authenticated identity on the session.
C3_ApiGuarded ==
  [][\A s \in Sessions :
       ApiStepOn(s) =>
         /\ ~Authenticated(s) => last'.resp = redirect("/login")
         /\ last'.resp.body = ApiPayload => Authenticated(s) /\ last'.isAuth]_vars

\* GET /api was redirected to /login on one session while another session
\* was Authenticated.
C3_Witness ==
  /\ last.route = "GET /api"
  /\ last.resp = redirect("/login")
  /\ ~Authenticated(last.sess)
  /\ \E s \in Sessions : Authenticated(s)

C5_LogoutAlwaysRedirects ==
  last.route = "GET /logout" =>
    /\ last.resp = redirect(destroySessionUrl)
    /\ last.nresp = 1

\* A logout whose destroy callback got an error, on a session that was
\* Authenticated, was answered with the redirect.
C5_Witness ==
  /\ last.route = "GET /logout"
  /\ last.err
  /\ last.isAuth
  /\ last.resp = redirect(destroySessionUrl)

C7_SerializerRoundTrip ==
  /\ \A i \in DOMAIN loggedInUsers :
       deserializeUser(loggedInUsers, serializeUser(loggedInUsers[i]))
         = [err |-> Null, user |-> loggedInUsers[i]]
  /\ \A oid \in Oids \cup {Undefined, EmptyOid} :
       OidCount(oid) = 0 =>
         /\ deserializeUser(loggedInUsers, oid) = [err |-> Null, user |-> Absent]
         /\ ~isAuthenticated(deserializeUser(loggedInUsers, oid).user)

\* The directory holds two records, and a request was re-hydrated from its
\* session to the second of them.
C7_Witness ==
  /\ Len(loggedInUsers) = 2
  /\ last.route = "GET /"
  /\ last.isAuth
  /\ last.user = loggedInUsers[2]

\* C8: when two verifications with distinct oids were pending together and
\* both deferred steps have run, the directory holds an entry for each of the
\* two oids and the reported record; every verification with an oid reports
\* success.
C8_ConcurrentRegistrations ==
  /\ (last.outcome = "verify" /\ last.profile.oid \in Oids) => last.done = "success"
  /\ ( /\ last.done = "success"
       /\ last.peer \notin {Undefined, last.profile.oid}
       /\ NoTickPending )
     => /\ OidCount(last.profile.oid) = 1
        /\ OidCount(last.peer) = 1
        /\ last.user \in Range(loggedInUsers)

\* Two verifications with distinct oids were pending together; both deferred
\* steps have run and the directory holds exactly the two profiles, the one
\* answered last registered second.
C8_Witness ==
  /\ last.done = "success"
  /\ last.peer \notin {Undefined, last.profile.oid}
  /\ NoTickPending
  /\ Len(loggedInUsers) = 2
  /\ loggedInUsers[2] = last.profile
  /\ loggedInUsers[1].oid = last.peer

\* C9: every return request that does not end in success is answered with a
\* redirect to the failure URL '/' and leaves its session not Authenticated.
C9_FailureRedirects ==
  [][\A r \in Reqs :
       ( /\ reqs[r].route = "/auth/openid/return"
         /\ reqs[r].pc \in {"delegate", "tick"}
         /\ reqs'[r].pc = "free"
         /\ last'.done # "success" )
       => /\ last'.resp = redirect(failureRedirect)
          /\ ~Authenticated(last.sess)']_vars

IsPrefix(old, new) ==
  /\ Len(old) <= Len(new)
  /\ \A i \in DOMAIN old : new[i] = old[i]

----------------------------------------------------------------------------
\* C11: the deferred step of a verification with an oid reports success with
\* a record of that oid: for an oid not in the directory the given profile is
\* appended and reported; for an oid already there the stored record is
\* reported and the directory is not changed.
C11_ResolveOrRegister ==
  [][\A r \in Reqs :
       TickStep(r) =>
         LET profile == reqs[r].profile
         IN  /\ last'.done = "success"
             /\ last'.user.oid = profile.oid
             /\ OidCount(profile.oid) = 0 =>
                  /\ loggedInUsers' = Append(loggedInUsers, profile)
                  /\ last'.user = profile
             /\ OidCount(profile.oid) > 0 =>
                  /\ loggedInUsers' = loggedInUsers
                  /\ last'.user \in Range(loggedInUsers)]_vars

\* A returning user was verified with a profile that differs from the stored
\* record of the same oid: the stored record was reported, the directory
\* holds no entry equal to the new profile.
C11_Witness ==
  /\ last.outcome = "verify" /\ last.done = "success"
  /\ last.user # last.profile
  /\ last.user.oid = last.profile.oid
  /\ last.user \in Range(loggedInUsers)
  /\ last.profile \notin Range(loggedInUsers)

\* C12: the directory is append-only: in every step the old directory is a
\* prefix of the new one, and a step that extends it is the deferred step of
\* a verification whose oid was not in the directory, appending its profile.
C12_AppendOnly ==
  [][/\ IsPrefix(loggedInUsers, loggedInUsers')
     /\ loggedInUsers' # loggedInUsers =>
          \E r \in Reqs :
            /\ TickStep(r)
            /\ OidCount(reqs[r].profile.oid) = 0
            /\ loggedInUsers' = Append(loggedInUsers, reqs[r].profile)]_vars

\* With two records in the directory, a failed authentication (a profile
\* without oid) was answered and the directory still holds both.
C12_Witness ==
  /\ Len(loggedInUsers) = 2
  /\ last.outcome = "verify" /\ last.done = "error"
  /\ loggedInUsers[1].oid # loggedInUsers[2].oid

\* The request in slot r has been handed to the authentication delegate,
\* which has not completed: passport.authenticate is at work, or the verify
\* callback's deferred step is pending.
DelegatePending(r) ==
  /\ reqs[r].route \in {"GET /login", "/auth/openid/return"}
  /\ reqs[r].pc \in {"delegate", "tick"}

\* C13: while the delegate of a request is pending the request is not
\* answered (it is answered by the step that completes the delegate), and no
\* step that leaves the delegate pending changes the request's session.
C13_DelegateIsolated ==
  [][\A r \in Reqs :
       DelegatePending(r) =>
         /\ reqs'[r].pc = "free" =>
              /\ last'.route = reqs[r].route /\ last'.sess = reqs[r].sess
              /\ last'.nresp = 1
         /\ reqs'[r].pc = "tick" /\ reqs[r].pc = "delegate" => last' = NoAnswer
         /\ reqs'[r].pc = reqs[r].pc =>
              sessUser'[reqs[r].sess] = sessUser[reqs[r].sess]]_vars

\* C14: every verification callback calls done exactly once: a verification
\* that was answered has called it once (with an error for a missing oid, with
\* the record otherwise), a verification whose deferred step is pending has
\* not called it, and under weak fairness of the deferred step no
\* verification stays pending forever.
C14_VerificationCompletes ==
  /\ [](last.outcome = "verify" => last.ndone = 1 /\ last.done \in {"success", "error"})
  /\ [][\A r \in Reqs :
          reqs'[r].pc = "tick" /\ reqs[r].pc # "tick" => last'.ndone = 0]_vars
  /\ \A r \in Reqs : (reqs[r].pc = "tick") ~> (reqs[r].pc # "tick")

\* A verification that registered a new user has completed, having called
\* done once, while the deferred step of another verification is pending.
C14_Witness ==
  /\ last.outcome = "verify" /\ last.done = "success" /\ last.ndone = 1
  /\ last.user = last.profile
  /\ loggedInUsers[Len(loggedInUsers)] = last.profile
  /\ ~NoTickPending

\* This step answers a GET / request on session s.
HomeStepOn(s) == last'.route = "GET /" /\ last'.sess = s

LoginArrival(r) == reqs[r].pc = "free" /\ reqs'[r].route = "GET /login"

\* This step completes the delegate of the GET /login request in slot r.
LoginCompletion(r) ==
  /\ reqs[r].route = "GET /login" /\ reqs[r].pc = "delegate"
  /\ reqs'[r].pc = "free"

C17_SessionUserRegistered ==
  \A s \in Sessions :
    sessUser[s] # Undefined =>
      /\ OidCount(sessUser[s]) = 1
      /\ reqUser(s) # Absent
      /\ reqUser(s) \in Range(loggedInUsers)
      /\ reqUser(s).oid = sessUser[s]
      /\ sessionLoaded(s) = sessUser

\* Both sessions store the oid of the record registered second, and a
\* verification of that oid with another profile has just been answered.
C17_Witness ==
  /\ Len(loggedInUsers) = 2
  /\ \A s \in Sessions : sessUser[s] = loggedInUsers[2].oid
  /\ last.done = "success"
  /\ last.user = loggedInUsers[2]
  /\ last.profile # last.user

\* This step runs the destroy callback of the GET /logout request in slot r.
LogoutCallback(r) == reqs[r].pc = "destroying" /\ reqs'[r].pc = "free"

\* C18: the steps of a GET /logout request leave the directory and the stored
\* user of every other session as they are, so every other session is
\* Authenticated after the step exactly when it was before; the destroy
\* callback changes no session at all.
C18_LogoutLocal ==
  [][/\ \A s \in Sessions :
          LogoutOn(s) =>
            /\ loggedInUsers' = loggedInUsers
            /\ \A t \in Sessions \ {s} :
                 /\ sessUser'[t] = sessUser[t]
                 /\ Authenticated(t)' <=> Authenticated(t)
     /\ \A r \in Reqs :
          LogoutCallback(r) =>
            /\ loggedInUsers' = loggedInUsers
            /\ sessUser' = sessUser]_vars

\* A logout was answered on a session that was Authenticated; the other
\* session is still Authenticated as the same user, the only one registered.
C18_Witness ==
  /\ last.route = "GET /logout" /\ last.isAuth
  /\ sessUser[last.sess] = Undefined
  /\ Len(loggedInUsers) = 1
  /\ \E t \in Sessions \ {last.sess} :
       Authenticated(t) /\ sessUser[t] = loggedInUsers[1].oid

====
